---- MODULE Spec2Model ----
(***************************************************************************)
(* Health Symptom Checker (src/app.py): a Streamlit script that loads a    *)
(* condition/symptom table, offers the table's symptoms in a multiselect,  *)
(* retrieves the conditions sharing a selected symptom, asks an external   *)
(* language model for a JSON answer and renders it, falling back to a      *)
(* fixed payload when the call or the parse fails.                         *)
(*                                                                         *)
(* A Python str is a sequence of one-character strings, so that lower(),   *)
(* strip(), replace(), startswith(), find(), rfind() and slicing are       *)
(* computed on the characters.  The float NaN pandas stores for a missing  *)
(* cell is the value NaN.                                                  *)
(***************************************************************************)
EXTENDS Integers, Sequences, FiniteSets, TLC

\* ------------------------------------------------------------- bounds

\* Most entries the user puts into the multiselect.
MaxSelected == 2
\* Most rows of dataset.csv.
MaxRows == 2

\* ------------------------------------------------------- Python str

\* The characters in ASCII order (the order sorted() compares them in).
Alphabet ==
    << "\t", " ", "1", "2",
       "A", "B", "C", "D", "E", "F", "G", "H", "I", "J", "K", "L", "M",
       "N", "O", "P", "Q", "R", "S", "T", "U", "V", "W", "X", "Y", "Z",
       "_",
       "a", "b", "c", "d", "e", "f", "g", "h", "i", "j", "k", "l", "m",
       "n", "o", "p", "q", "r", "s", "t", "u", "v", "w", "x", "y", "z",
       "{", "}" >>

Upper == << "A", "B", "C", "D", "E", "F", "G", "H", "I", "J", "K", "L", "M",
            "N", "O", "P", "Q", "R", "S", "T", "U", "V", "W", "X", "Y", "Z" >>

Lower == << "a", "b", "c", "d", "e", "f", "g", "h", "i", "j", "k", "l", "m",
            "n", "o", "p", "q", "r", "s", "t", "u", "v", "w", "x", "y", "z" >>

Whitespace == { " ", "\t" }

Ord(c) == CHOOSE i \in 1..Len(Alphabet) : Alphabet[i] = c

\* str.lower() on one character
LowerChar(c) ==
    IF \E i \in 1..Len(Upper) : Upper[i] = c
    THEN Lower[CHOOSE i \in 1..Len(Upper) : Upper[i] = c]
    ELSE c

\* str.lower()
str_lower(s) == [i \in 1..Len(s) |-> LowerChar(s[i])]

RECURSIVE lstrip(_)
lstrip(s) ==
    IF s # <<>> /\ Head(s) \in Whitespace THEN lstrip(Tail(s)) ELSE s

RECURSIVE rstrip(_)
rstrip(s) ==
    IF s # <<>> /\ s[Len(s)] \in Whitespace
    THEN rstrip(SubSeq(s, 1, Len(s) - 1))
    ELSE s

\* str.strip()
str_strip(s) == rstrip(lstrip(s))

\* str.replace(old, new) for one-character old and new
str_replace(s, old, new) == [i \in 1..Len(s) |-> IF s[i] = old THEN new ELSE s[i]]

\* str.startswith(prefix)
str_startswith(s, prefix) ==
    /\ Len(s) >= Len(prefix)
    /\ SubSeq(s, 1, Len(prefix)) = prefix

\* str.find(c): the 0-based index of the first c, -1 when there is none
str_find(s, c) ==
    IF \E i \in 1..Len(s) : s[i] = c
    THEN (CHOOSE i \in 1..Len(s) : s[i] = c /\ \A j \in 1..(i - 1) : s[j] # c) - 1
    ELSE -1

\* str.rfind(c): the 0-based index of the last c, -1 when there is none
str_rfind(s, c) ==
    IF \E i \in 1..Len(s) : s[i] = c
    THEN (CHOOSE i \in 1..Len(s) : s[i] = c /\ \A j \in (i + 1)..Len(s) : s[j] # c) - 1
    ELSE -1

\* s[start:end] with Python's 0-based indices; a negative index counts from
\* the end, out-of-range indices are clipped.
Clip(i, n) == IF i < 0 THEN (IF i + n < 0 THEN 0 ELSE i + n) ELSE (IF i > n THEN n ELSE i)

str_slice(s, start, end) ==
    LET a == Clip(start, Len(s))
        b == Clip(end, Len(s))
    IN  IF a >= b THEN <<>> ELSE SubSeq(s, a + 1, b)

\* s < t as Python compares two str: character by character, a proper
\* prefix first.
RECURSIVE str_lt(_, _)
str_lt(s, t) ==
    IF t = <<>> THEN FALSE
    ELSE IF s = <<>> THEN TRUE
    ELSE IF Head(s) = Head(t) THEN str_lt(Tail(s), Tail(t))
    ELSE Ord(Head(s)) < Ord(Head(t))

\* sorted(S) of a set of str
RECURSIVE sorted(_)
sorted(S) ==
    IF S = {} THEN <<>>
    ELSE LET m == CHOOSE x \in S : \A y \in S \ {x} : str_lt(x, y)
         IN  <<m>> \o sorted(S \ {m})

\* sep.join(list) for the separator ", "
RECURSIVE join(_)
join(list) ==
    IF list = <<>> THEN <<>>
    ELSE IF Len(list) = 1 THEN list[1]
    ELSE list[1] \o <<",", " ">> \o join(Tail(list))

Range(f) == { f[i] : i \in DOMAIN f }


\* ------------------------------------------------- the texts used

c_condition == << "c", "o", "n", "d", "i", "t", "i", "o", "n" >>
c_Condition == << "C", "o", "n", "d", "i", "t", "i", "o", "n" >>
c_Symptom_1 == << "S", "y", "m", "p", "t", "o", "m", "_", "1" >>
c_Symptom_2 == << "S", "y", "m", "p", "t", "o", "m", "_", "2" >>
c_SYMPTOM1 == << "S", "Y", "M", "P", "T", "O", "M", "1" >>
c_age == << "a", "g", "e" >>
c_my_symptom == << "m", "y", "_", "s", "y", "m", "p", "t", "o", "m" >>
Flu == << "F", "l", "u" >>
Flu_padded == << " ", "F", "l", "u", " " >>
Cold == << "C", "o", "l", "d" >>
Angina == << "A", "n", "g", "i", "n", "a" >>
Unknown == << "U", "n", "k", "n", "o", "w", "n" >>
fever == << "f", "e", "v", "e", "r" >>
Fever_padded == << "F", "e", "v", "e", "r", " " >>
cough == << "c", "o", "u", "g", "h" >>
sneezing == << "s", "n", "e", "e", "z", "i", "n", "g" >>
chest_pain == << "c", "h", "e", "s", "t", "_", "p", "a", "i", "n" >>
chest_pain_spaced == << "c", "h", "e", "s", "t", " ", "p", "a", "i", "n" >>
Chest_Pain_titled == << "C", "h", "e", "s", "t", " ", "P", "a", "i", "n" >>
chest_pain_padded == << " ", "c", "h", "e", "s", "t", " ", "p", "a", "i", "n", " " >>
blank == << " " >>
NAN_text == << "N", "A", "N" >>
nan == << "n", "a", "n" >>
headache == << "h", "e", "a", "d", "a", "c", "h", "e" >>
symptom_prefix == << "s", "y", "m", "p", "t", "o", "m" >>

\* ------------------------------------------------- the environment

\* The float NaN that read_csv stores for a missing cell: no str equals it.
NaN == << "NaN" >>

\* The header lines dataset.csv may have.
Headers ==
    { << c_condition, c_Symptom_1, c_Symptom_2 >>,
      << c_condition, c_SYMPTOM1, c_age >>,
      << c_condition, c_age, c_my_symptom >>,
      << c_Condition, c_Symptom_1, c_Symptom_2 >> }

\* The lines dataset.csv may have, one cell per column.  The condition name
\* is a string in every record; a symptom slot may be missing, blank, padded,
\* capitalised, written with a space or with an underscore.
Rows ==
    { << Flu, fever, cough >>,
      << Cold, cough, sneezing >>,
      << Flu_padded, Fever_padded, NaN >>,
      << Angina, chest_pain, blank >>,
      << Angina, chest_pain_spaced, NAN_text >> }

SeqsUpTo(S, n) == UNION { [1..k -> S] : k \in 0..n }

NoFile == [exists |-> FALSE, columns |-> <<>>, rows |-> <<>>]

Files ==
    { NoFile } \cup
    { [exists |-> TRUE, columns |-> h, rows |-> r] :
        h \in Headers, r \in SeqsUpTo(Rows, MaxRows) }

\* ------------------------------------------- the model's responses

Tok_possible_conditions == "\"possible_conditions\": [\"Migraine\"]"
Tok_possible_numbers == "\"possible_conditions\": [1, 2]"
Tok_next_steps == "\"next_steps\": \"Rest and drink water\""
Tok_disclaimer == "\"disclaimer\": \"This is not medical advice\""

Migraine == << "M", "i", "g", "r", "a", "i", "n", "e" >>

\* The members a JSON object of a response is made of: the key and the
\* Python value json.loads gives it.
Members ==
    { [tok |-> Tok_possible_conditions, key |-> "possible_conditions",
       value |-> [type |-> "list_of_str", v |-> << Migraine >>]],
      [tok |-> Tok_possible_numbers, key |-> "possible_conditions",
       value |-> [type |-> "list_of_int", v |-> << <<"1">>, <<"2">> >>]],
      [tok |-> Tok_next_steps, key |-> "next_steps",
       value |-> [type |-> "str", v |-> << "Rest and drink water" >>]],
      [tok |-> Tok_disclaimer, key |-> "disclaimer",
       value |-> [type |-> "str", v |-> << "This is not medical advice" >>]] }

MemberToks == { m.tok : m \in Members }

GoodObject ==
    << "{", Tok_possible_conditions, Tok_next_steps, Tok_disclaimer, "}" >>

\* What llm.invoke may do: raise (network error, timeout, quota), or return
\* a message whose content is a text: prose ("w"), braces and JSON members.
Responses ==
    { [raises |-> TRUE, content |-> <<>>] } \cup
    { [raises |-> FALSE, content |-> c] : c \in
        { GoodObject,
          << "w", " " >> \o GoodObject \o << " ", "w" >>,
          << " " >> \o GoodObject \o << " " >>,
          << "w" >>,
          << "{", Tok_possible_conditions, Tok_next_steps, Tok_disclaimer >>,
          << "}", "w", "{" >>,
          << "{", "w", "}" >>,
          GoodObject \o GoodObject,
          << "{", "}" >>,
          << "{", Tok_possible_conditions, Tok_disclaimer, "}" >>,
          << "{", Tok_possible_numbers, Tok_next_steps, Tok_disclaimer, "}" >> } }

\* ------------------------------------------------------------ state

VARIABLES
    apiKey,               \* os.getenv("GOOGLE_API_KEY") is set
    file,                 \* dataset.csv as it lies on disk
    pc,                   \* where the script run stands
    check,                \* st.button's value in this run
    selected_symptoms,    \* the multiselect's value (kept across reruns)
    df,                   \* the DataFrame of this run
    symptom_cols,         \* the names of the symptom columns
    all_symptoms,         \* the multiselect's options
    retrieved_conditions, \* retrieve_conditions' result in this run
    result,               \* the dict that is rendered
    screen,               \* the elements this run has put on the page
    nRetrieve,            \* calls of retrieve_conditions in this run
    nInvoke,              \* calls of llm.invoke in this run
    response,             \* what llm.invoke did in this run
    dfFirst,              \* the DataFrame the first run had normalized
    prev                  \* the previous run's retrieve_conditions call

vars == << apiKey, file, pc, check, selected_symptoms, df, symptom_cols,
           all_symptoms, retrieved_conditions, result, screen, nRetrieve,
           nInvoke, response, dfFirst, prev >>

NoDf == [columns |-> <<>>, rows |-> <<>>]

\* A dict is a function from its keys; None is the dict without keys.
EmptyDict == [k \in {} |-> 0]

Element(kind, body) == [kind |-> kind, body |-> body]

Shown(kind) == \E i \in 1..Len(screen) : screen[i].kind = kind

\* --------------------------------------------------- load (17 - 39)

ColumnIndex(d, name) == CHOOSE i \in 1..Len(d.columns) : d.columns[i] = name

HasColumn(d, name) == \E i \in 1..Len(d.columns) : d.columns[i] = name

\* c.lower().startswith("symptom")
IsSymptomCol(c) == str_startswith(str_lower(c), symptom_prefix)

\* Series.astype(str): NaN becomes the text "nan"
astype_str(v) == IF v = NaN THEN nan ELSE v

\* Series.str.strip(): NaN stays NaN
series_strip(v) == IF v = NaN THEN NaN ELSE str_strip(v)

\* df[col].astype(str).str.lower().str.strip()
NormalizeSymptom(v) == str_strip(str_lower(astype_str(v)))

\* Lines 37-39 on one row.
NormalizeRow(d, cols, row) ==
    [i \in 1..Len(row) |->
        IF d.columns[i] = c_condition THEN series_strip(row[i])
        ELSE IF \E j \in 1..Len(cols) : cols[j] = d.columns[i]
             THEN NormalizeSymptom(row[i])
             ELSE row[i]]

NormalizeDf(d, cols) ==
    [columns |-> d.columns,
     rows |-> [r \in 1..Len(d.rows) |-> NormalizeRow(d, cols, d.rows[r])]]

\* Lines 17-22 without st.stop(): the error is shown and the script goes on.
CheckKey_no_stop ==
    /\ pc = "key"
    /\ screen' = IF ~apiKey
                 THEN Append(screen, Element("error", "GOOGLE_API_KEY not found in .env file"))
                 ELSE screen
    /\ pc' = "load"
    /\ UNCHANGED << apiKey, file, check, selected_symptoms, df, symptom_cols,
                    all_symptoms, retrieved_conditions, result, nRetrieve,
                    nInvoke, response, dfFirst, prev >>

\* Lines 17-22.
CheckKey ==
    /\ pc = "key"
    /\ IF ~apiKey
       THEN /\ screen' = Append(screen, Element("error", "GOOGLE_API_KEY not found in .env file"))
            /\ pc' = "stopped"
       ELSE /\ screen' = screen
            /\ pc' = "load"
    /\ UNCHANGED << apiKey, file, check, selected_symptoms, df, symptom_cols,
                    all_symptoms, retrieved_conditions, result, nRetrieve,
                    nInvoke, response, dfFirst, prev >>

\* Lines 25-29.
LoadDataset ==
    /\ pc = "load"
    /\ IF ~file.exists
       THEN /\ screen' = Append(screen, Element("error", "dataset.csv file not found!"))
            /\ pc' = "stopped"
            /\ df' = df
       ELSE /\ df' = [columns |-> file.columns, rows |-> file.rows]
            /\ screen' = screen
            /\ pc' = "columns"
    /\ UNCHANGED << apiKey, file, check, selected_symptoms, symptom_cols,
                    all_symptoms, retrieved_conditions, result, nRetrieve,
                    nInvoke, response, dfFirst, prev >>

\* Lines 31-35.
DetectColumns ==
    /\ pc = "columns"
    /\ symptom_cols' = SelectSeq(df.columns, IsSymptomCol)
    /\ IF ~HasColumn(df, c_condition) \/ symptom_cols' = <<>>
       THEN /\ screen' = Append(screen, Element("error", "Dataset must contain condition and Symptom_* columns"))
            /\ pc' = "stopped"
       ELSE /\ screen' = screen
            /\ pc' = "normalize"
    /\ UNCHANGED << apiKey, file, check, selected_symptoms, df, all_symptoms,
                    retrieved_conditions, result, nRetrieve, nInvoke,
                    response, dfFirst, prev >>

\* Lines 37-39.
Normalize ==
    /\ pc = "normalize"
    /\ df' = NormalizeDf(df, symptom_cols)
    /\ dfFirst' = IF dfFirst = <<>> THEN << df' >> ELSE dfFirst
    /\ pc' = "options"
    /\ UNCHANGED << apiKey, file, check, selected_symptoms, symptom_cols,
                    all_symptoms, retrieved_conditions, result, screen,
                    nRetrieve, nInvoke, response, prev >>

\* ------------------------------------------ the options (159 - 174)

\* The values of the symptom columns: df[col].dropna().unique() over the
\* columns of symptom_cols.
ColumnValues(d, cols) ==
    { d.rows[r][ColumnIndex(d, cols[j])] :
        r \in 1..Len(d.rows), j \in 1..Len(cols) } \ { NaN }

\* Lines 159-166.
AllSymptoms(d, cols) ==
    sorted({ str_replace(s, "_", " ") : s \in { v \in ColumnValues(d, cols) : v # nan } })

\* Lines 159-171: the options are built and the multiselect is drawn.
BuildOptions ==
    /\ pc = "options"
    /\ all_symptoms' = AllSymptoms(df, symptom_cols)
    /\ screen' = Append(screen, Element("multiselect", all_symptoms'))
    /\ pc' = "button"
    /\ UNCHANGED << apiKey, file, check, selected_symptoms, df, symptom_cols,
                    retrieved_conditions, result, nRetrieve, nInvoke,
                    response, dfFirst, prev >>

\* Lines 174-179 without st.stop(): the warning is shown and the analysis
\* goes on.
Button_no_stop ==
    /\ pc = "button"
    /\ screen' = IF check /\ selected_symptoms = <<>>
                 THEN screen \o << Element("button", "Analyze Symptoms"),
                                   Element("warning", "Please select at least one symptom.") >>
                 ELSE Append(screen, Element("button", "Analyze Symptoms"))
    /\ pc' = IF check THEN "retrieve" ELSE "idle"
    /\ UNCHANGED << apiKey, file, check, selected_symptoms, df, symptom_cols,
                    all_symptoms, retrieved_conditions, result, nRetrieve,
                    nInvoke, response, dfFirst, prev >>

\* Lines 174-179: the button is drawn; a run it did not start ends here, a
\* run it started with nothing selected warns and stops.
Button ==
    /\ pc = "button"
    /\ IF ~check
       THEN /\ screen' = Append(screen, Element("button", "Analyze Symptoms"))
            /\ pc' = "idle"
       ELSE IF selected_symptoms = <<>>
       THEN /\ screen' = screen \o << Element("button", "Analyze Symptoms"),
                                      Element("warning", "Please select at least one symptom.") >>
            /\ pc' = "stopped"
       ELSE /\ screen' = Append(screen, Element("button", "Analyze Symptoms"))
            /\ pc' = "retrieve"
    /\ UNCHANGED << apiKey, file, check, selected_symptoms, df, symptom_cols,
                    all_symptoms, retrieved_conditions, result, nRetrieve,
                    nInvoke, response, dfFirst, prev >>

\* ------------------------------------- retrieve_conditions (42 - 54)

\* Line 43 without .lower(): the selection is matched in the case it was
\* written in.
UserSymptoms_no_lower(user_symptoms) ==
    [i \in 1..Len(user_symptoms) |->
        str_replace(str_strip(user_symptoms[i]), " ", "_")]

\* Line 43.
UserSymptoms(user_symptoms) ==
    [i \in 1..Len(user_symptoms) |->
        str_replace(str_strip(str_lower(user_symptoms[i])), " ", "_")]

\* Lines 47-50 without the filter of line 49: the text of an absent slot
\* counts as a symptom.
RowSymptoms_unfiltered(d, cols, row) ==
    { row[ColumnIndex(d, cols[j])] : j \in 1..Len(cols) }

\* Lines 47-50 for one row.
RowSymptoms(d, cols, row) ==
    { s \in { row[ColumnIndex(d, cols[j])] : j \in 1..Len(cols) } :
        s # <<>> /\ s # nan }

\* Lines 46-52: the loop over df.iterrows().
RECURSIVE MatchRows(_, _, _, _, _)
MatchRows(d, cols, rows, user_symptoms, matched_conditions) ==
    IF rows = <<>> THEN matched_conditions
    ELSE LET row == Head(rows)
             hit == RowSymptoms(d, cols, row) \cap Range(user_symptoms) # {}
         IN  MatchRows(d, cols, Tail(rows), user_symptoms,
                       IF hit
                       THEN matched_conditions \cup { row[ColumnIndex(d, c_condition)] }
                       ELSE matched_conditions)

\* retrieve_conditions(user_symptoms) on the globals df and symptom_cols,
\* as the set it builds.
retrieve_conditions(d, cols, user_symptoms) ==
    MatchRows(d, cols, d.rows, UserSymptoms(user_symptoms), {})

\* list(matched_conditions): the set's elements in the order the hash
\* seed of the process gives them, any order.
ListOf(S) == { p \in [1..Cardinality(S) -> S] : Range(p) = S }

\* Line 181 with a retrieve_conditions that drops the rows it has matched
\* from df.
Retrieve_consuming ==
    /\ pc = "retrieve"
    /\ retrieved_conditions' \in
         ListOf(retrieve_conditions(df, symptom_cols, selected_symptoms))
    /\ df' = [df EXCEPT !.rows =
                SelectSeq(df.rows,
                          LAMBDA row : RowSymptoms(df, symptom_cols, row)
                                         \cap Range(UserSymptoms(selected_symptoms)) = {})]
    /\ nRetrieve' = nRetrieve + 1
    /\ pc' = "invoke"
    /\ UNCHANGED << apiKey, file, check, selected_symptoms, symptom_cols,
                    all_symptoms, result, screen, nInvoke, response, dfFirst,
                    prev >>

\* Line 181.
Retrieve ==
    /\ pc = "retrieve"
    /\ retrieved_conditions' \in
         ListOf(retrieve_conditions(df, symptom_cols, selected_symptoms))
    /\ nRetrieve' = nRetrieve + 1
    /\ pc' = "invoke"
    /\ UNCHANGED << apiKey, file, check, selected_symptoms, df, symptom_cols,
                    all_symptoms, result, screen, nInvoke, response, dfFirst,
                    prev >>

\* -------------------------------------------- the model call (183 - 204)

\* json.loads of a text: an object of members, or JSONDecodeError.  Of two
\* members with one key the last one counts.
json_loads(text) ==
    LET n == Len(text)
        wellFormed == /\ n >= 2
                      /\ text[1] = "{"
                      /\ text[n] = "}"
                      /\ \A i \in 2..(n - 1) : text[i] \in MemberToks
        member(i) == CHOOSE m \in Members : m.tok = text[i]
        keys == { member(i).key : i \in 2..(n - 1) }
        last(k) == CHOOSE i \in 2..(n - 1) :
                      /\ member(i).key = k
                      /\ \A j \in (i + 1)..(n - 1) : member(j).key # k
        valueOf(k) == member(last(k)).value
    IN  IF wellFormed
        THEN [raised |-> FALSE, value |-> [k \in keys |-> valueOf(k)]]
        ELSE [raised |-> TRUE, value |-> EmptyDict]

\* Lines 194-198: the body of the try.
Try(resp) ==
    IF resp.raises THEN [raised |-> TRUE, value |-> EmptyDict]
    ELSE LET raw_text == str_strip(resp.content)
             start == str_find(raw_text, "{")
             end == str_rfind(raw_text, "}") + 1
         IN  json_loads(str_slice(raw_text, start, end))

ConsultText == "Consult a healthcare professional."
DisclaimerText == "This is not medical advice"

\* Lines 200-204 without `or ["Unknown"]`.
FallbackValue_no_unknown(retrieved, k) ==
    CASE k = "possible_conditions" -> [type |-> "list_of_str", v |-> retrieved]
      [] k = "next_steps" -> [type |-> "str", v |-> << ConsultText >>]
      [] k = "disclaimer" -> [type |-> "str", v |-> << DisclaimerText >>]

\* Lines 200-204: the dict of the except branch.
FallbackValue(retrieved, k) ==
    CASE k = "possible_conditions" ->
           [type |-> "list_of_str",
            v |-> IF retrieved # <<>> THEN retrieved ELSE << Unknown >>]
      [] k = "next_steps" -> [type |-> "str", v |-> << ConsultText >>]
      [] k = "disclaimer" -> [type |-> "str", v |-> << DisclaimerText >>]

Fallback(retrieved) ==
    [k \in { "possible_conditions", "next_steps", "disclaimer" } |->
        FallbackValue(retrieved, k)]

\* Lines 183-204 with a second llm.invoke after a call that raised.
InvokeModel_retry ==
    /\ pc = "invoke"
    /\ \E resp \in Responses :
         /\ response' = resp
         /\ result' = IF Try(resp).raised
                      THEN Fallback(retrieved_conditions)
                      ELSE Try(resp).value
         /\ nInvoke' = IF resp.raises THEN nInvoke + 2 ELSE nInvoke + 1
    /\ screen' = Append(screen, Element("heartbeat", "heart"))
    /\ pc' = "render"
    /\ UNCHANGED << apiKey, file, check, selected_symptoms, df, symptom_cols,
                    all_symptoms, retrieved_conditions, nRetrieve, dfFirst,
                    prev >>

\* Lines 183-204: the prompt is built, the model is called once, its answer
\* is parsed; any exception of the try gives the fallback dict.
InvokeModel ==
    /\ pc = "invoke"
    /\ \E resp \in Responses :
         /\ response' = resp
         /\ result' = IF Try(resp).raised
                      THEN Fallback(retrieved_conditions)
                      ELSE Try(resp).value
    /\ nInvoke' = nInvoke + 1
    /\ screen' = Append(screen, Element("heartbeat", "heart"))
    /\ pc' = "render"
    /\ UNCHANGED << apiKey, file, check, selected_symptoms, df, symptom_cols,
                    all_symptoms, retrieved_conditions, nRetrieve, dfFirst,
                    prev >>

\* ------------------------------------------------ results (207 - 214)

ResultKeys == << "possible_conditions", "next_steps", "disclaimer" >>

Title(k) ==
    CASE k = "possible_conditions" -> "Possible Conditions"
      [] k = "next_steps" -> "Recommended Next Steps"
      [] k = "disclaimer" -> "Disclaimer"

\* Lines 207-214 from the subheader of key keys[1] on: each subheader, then
\* its card; result[k] of a missing key raises KeyError and ", ".join of a
\* list that does not hold str raises TypeError, and the run ends there with
\* the exception on the page.
RECURSIVE RenderFrom(_, _)
RenderFrom(res, keys) ==
    IF keys = <<>> THEN <<>>
    ELSE LET k == Head(keys)
         IN  << Element("subheader", Title(k)) >> \o
             ( IF k \notin DOMAIN res
               THEN << Element("exception", "KeyError") >>
               ELSE IF k = "possible_conditions" /\ res[k].type # "list_of_str"
               THEN << Element("exception", "TypeError") >>
               ELSE << Element("card",
                               [title |-> Title(k),
                                text |-> IF k = "possible_conditions"
                                         THEN join(res[k].v)
                                         ELSE res[k].v]) >>
                    \o RenderFrom(res, Tail(keys)) )

Render ==
    /\ pc = "render"
    /\ screen' = screen \o RenderFrom(result, ResultKeys)
    /\ pc' = IF \E i \in 1..Len(screen') : screen'[i].kind = "exception"
             THEN "crashed"
             ELSE "done"
    /\ UNCHANGED << apiKey, file, check, selected_symptoms, df, symptom_cols,
                    all_symptoms, retrieved_conditions, result, nRetrieve,
                    nInvoke, response, dfFirst, prev >>

\* ------------------------------------------------------- the user

Ended == { "idle", "done", "stopped", "crashed" }

NoResponse == [raises |-> FALSE, content |-> <<>>]

\* Streamlit runs the script again from its first line: every global is
\* rebound, the page is drawn anew, the widgets keep their values.
Rerun(clicked) ==
    /\ pc' = "key"
    /\ check' = clicked
    /\ df' = NoDf
    /\ symptom_cols' = <<>>
    /\ all_symptoms' = <<>>
    /\ retrieved_conditions' = <<>>
    /\ result' = EmptyDict
    /\ screen' = <<>>
    /\ nRetrieve' = 0
    /\ nInvoke' = 0
    /\ response' = NoResponse
    /\ prev' = IF nRetrieve = 1
               THEN << [sel |-> selected_symptoms,
                        res |-> Range(retrieved_conditions)] >>
               ELSE <<>>
    /\ UNCHANGED << apiKey, file, dfFirst >>

Remove(s, i) == SubSeq(s, 1, i - 1) \o SubSeq(s, i + 1, Len(s))

\* Lines 168-171: the user adds one of the options to the multiselect.
SelectSymptom ==
    /\ pc \in Ended
    /\ Shown("multiselect")
    /\ Len(selected_symptoms) < MaxSelected
    /\ \E o \in Range(all_symptoms) \ Range(selected_symptoms) :
         selected_symptoms' = Append(selected_symptoms, o)
    /\ Rerun(FALSE)

\* Lines 168-171: the user takes an entry out of the multiselect.
DeselectSymptom ==
    /\ pc \in Ended
    /\ Shown("multiselect")
    /\ \E i \in 1..Len(selected_symptoms) :
         selected_symptoms' = Remove(selected_symptoms, i)
    /\ Rerun(FALSE)

\* Line 174: the user presses the button.
ClickAnalyze ==
    /\ pc \in Ended
    /\ Shown("button")
    /\ selected_symptoms' = selected_symptoms
    /\ Rerun(TRUE)

\* ------------------------------------------------- the application

Init ==
    /\ apiKey \in BOOLEAN
    /\ file \in Files
    /\ pc = "key"
    /\ check = FALSE
    /\ selected_symptoms = <<>>
    /\ df = NoDf
    /\ symptom_cols = <<>>
    /\ all_symptoms = <<>>
    /\ retrieved_conditions = <<>>
    /\ result = EmptyDict
    /\ screen = <<>>
    /\ nRetrieve = 0
    /\ nInvoke = 0
    /\ response = NoResponse
    /\ dfFirst = <<>>
    /\ prev = <<>>

Next ==
    \/ CheckKey
    \/ LoadDataset
    \/ DetectColumns
    \/ Normalize
    \/ BuildOptions
    \/ Button
    \/ Retrieve
    \/ InvokeModel
    \/ Render
    \/ SelectSymptom
    \/ DeselectSymptom
    \/ ClickAnalyze

Spec == Init /\ [][Next]_vars

\* ------------------------------- retrieve_conditions on any selection

\* The files that pass the checks of lines 20-35.
LoadableFiles ==
    { f \in Files : /\ f.exists
                    /\ HasColumn(f, c_condition)
                    /\ SelectSeq(f.columns, IsSymptomCol) # <<>> }

\* What a caller may pass as one entry of user_symptoms.
Entries ==
    { cough, Fever_padded, Chest_Pain_titled, headache, NAN_text, <<>> }

\* The module as it stands after line 39, before any call.
FnInit ==
    /\ apiKey = TRUE
    /\ file \in LoadableFiles
    /\ pc = "fn"
    /\ check = FALSE
    /\ selected_symptoms = <<>>
    /\ symptom_cols = SelectSeq(file.columns, IsSymptomCol)
    /\ df = NormalizeDf([columns |-> file.columns, rows |-> file.rows], symptom_cols)
    /\ all_symptoms = <<>>
    /\ retrieved_conditions = <<>>
    /\ result = EmptyDict
    /\ screen = <<>>
    /\ nRetrieve = 0
    /\ nInvoke = 0
    /\ response = NoResponse
    /\ dfFirst = << df >>
    /\ prev = <<>>

\* One call retrieve_conditions(user_symptoms), lines 42-54.
FnCall ==
    /\ pc = "fn"
    /\ nRetrieve = 0
    /\ \E user_symptoms \in SeqsUpTo(Entries, MaxSelected) :
         /\ selected_symptoms' = user_symptoms
         /\ retrieved_conditions' \in
              ListOf(retrieve_conditions(df, symptom_cols, user_symptoms))
    /\ nRetrieve' = 1
    /\ UNCHANGED << apiKey, file, pc, check, df, symptom_cols, all_symptoms,
                    result, screen, nInvoke, response, dfFirst, prev >>

FnNext == FnCall

SpecFn == FnInit /\ [][FnNext]_vars

\* ============================================================ claims

\* A selected token as the claims normalize it: lowercased, trimmed, spaces
\* replaced by underscores.
NormalizedToken(s) == str_replace(str_strip(str_lower(s)), " ", "_")

NormalizedSet(sel) == { NormalizedToken(sel[i]) : i \in 1..Len(sel) }

\* The non-empty symptom tokens of record r of the loaded dataset: the
\* values of its symptom slots that are neither empty nor the text "nan",
\* which is what the load leaves in an absent slot.
RecordTokens(d, cols, r) ==
    { d.rows[r][ColumnIndex(d, cols[j])] : j \in 1..Len(cols) } \ { <<>>, nan }

ConditionOf(d, r) == d.rows[r][ColumnIndex(d, c_condition)]

MatchingConditions(d, cols, sel) ==
    { ConditionOf(d, r) :
        r \in { q \in 1..Len(d.rows) :
                  RecordTokens(d, cols, q) \cap NormalizedSet(sel) # {} } }

\* C1: retrieve_conditions returns exactly the condition names of the
\* records whose set of non-empty symptom tokens meets the normalized
\* selection: none missing, none extra, nothing for an empty selection or a
\* selection without a match.
C1_RetrieveExact ==
    nRetrieve = 1 =>
        Range(retrieved_conditions) =
            MatchingConditions(df, symptom_cols, selected_symptoms)

\* C1's case: "cough" is selected and both Flu and Cold come back.
C1_Witness ==
    /\ pc = "fn"
    /\ nRetrieve = 1
    /\ selected_symptoms = << cough >>
    /\ Range(retrieved_conditions) = { Flu, Cold }

UpperChar(c) ==
    IF \E i \in 1..Len(Lower) : Lower[i] = c
    THEN Upper[CHOOSE i \in 1..Len(Lower) : Lower[i] = c]
    ELSE c

\* Another way to write an entry: capitals, spaces for underscores, padding.
Respelled(s) ==
    << " " >> \o [i \in 1..Len(s) |-> UpperChar(IF s[i] = "_" THEN " " ELSE s[i])]
              \o << " " >>

Reverse(sel) == [i \in 1..Len(sel) |-> sel[Len(sel) + 1 - i]]

\* Other selections built from sel: reordered, with every entry repeated,
\* respelled, and the sorted listing of its normalized tokens.
Variants(sel) ==
    { Reverse(sel),
      sel \o sel,
      [i \in 1..Len(sel) |-> Respelled(sel[i])],
      sorted(NormalizedSet(sel)) }

\* C6: retrieve_conditions depends only on the set of normalized tokens of
\* its input: a selection that is reordered, repeats its entries or spells
\* them differently, and normalizes to the same set, gives the same result
\* set, and the result lists each matched condition once.
C6_NormalizedSetOnly ==
    nRetrieve = 1 =>
        /\ \A other \in Variants(selected_symptoms) :
             NormalizedSet(other) = NormalizedSet(selected_symptoms) =>
                retrieve_conditions(df, symptom_cols, other) =
                    Range(retrieved_conditions)
        /\ Len(retrieved_conditions) = Cardinality(Range(retrieved_conditions))

\* C6's case: two entries in different spellings, each matching a record.
C6_Witness ==
    /\ pc = "fn"
    /\ nRetrieve = 1
    /\ selected_symptoms = << Chest_Pain_titled, cough >>
    /\ Variants(selected_symptoms) # { selected_symptoms }
    /\ \A other \in Variants(selected_symptoms) :
         NormalizedSet(other) = NormalizedSet(selected_symptoms)
    /\ Cardinality(Range(retrieved_conditions)) >= 2

\* ------------------------------------------------ the application

\* An option of the selector for token t: underscores shown as spaces.
Display(t) == str_replace(t, "_", " ")

DatasetTokens(d, cols) ==
    UNION { RecordTokens(d, cols, r) : r \in 1..Len(d.rows) }

Retrieved == nRetrieve = 1 /\ pc \in { "invoke", "render", "done", "crashed" }

\* C2: selecting the option shown for a token the dataset holds retrieves
\* every condition whose record holds that token.
C2_OptionRetrievesItsRecords ==
    Retrieved =>
        \A r \in 1..Len(df.rows) :
            \A t \in RecordTokens(df, symptom_cols, r) :
                Display(t) \in Range(selected_symptoms) =>
                    ConditionOf(df, r) \in Range(retrieved_conditions)

\* C5: the options of the selector are exactly the non-empty symptom tokens
\* of the dataset, underscores shown as spaces.
C5_OptionsAreTheTokens ==
    Shown("multiselect") =>
        Range(all_symptoms) =
            { Display(t) : t \in DatasetTokens(df, symptom_cols) }

Braces == { "{", "}" }

\* The text between the first "{" and the last "}" of a text is a JSON
\* object: the positions, when there are such.
ObjectSpan(content) ==
    { ij \in (1..Len(content)) \X (1..Len(content)) :
        /\ ij[1] < ij[2]
        /\ content[ij[1]] = "{"
        /\ content[ij[2]] = "}"
        /\ \A k \in 1..(ij[1] - 1) : content[k] # "{"
        /\ \A k \in (ij[2] + 1)..Len(content) : content[k] # "}"
        /\ \A k \in (ij[1] + 1)..(ij[2] - 1) : content[k] \in MemberToks }

\* The model answered and its text can be parsed.
Parseable(resp) == ~resp.raises /\ ObjectSpan(resp.content) # {}

\* The model answered with an object of the expected shape: the three keys,
\* possible_conditions a list of strings.
ExpectedShape(resp) ==
    /\ Parseable(resp)
    /\ \A ij \in ObjectSpan(resp.content) :
         LET toks == { resp.content[k] : k \in (ij[1] + 1)..(ij[2] - 1) }
         IN  /\ Tok_possible_conditions \in toks
             /\ Tok_possible_numbers \notin toks
             /\ Tok_next_steps \in toks
             /\ Tok_disclaimer \in toks

IsCard(e) == e.kind = "card"

CardTexts == [i \in 1..Len(SelectSeq(screen, IsCard)) |->
                SelectSeq(screen, IsCard)[i].body.text]

\* The three cards of the fallback payload.
FallbackCards ==
    << join(IF retrieved_conditions = <<>> THEN << Unknown >> ELSE retrieved_conditions),
       << "Consult a healthcare professional." >>,
       << "This is not medical advice" >> >>

\* C3: when the model call raises or its answer has not the expected JSON
\* shape, the analysis ends with the three fields of the fallback payload
\* on the page and without an error on it.
C3_BadResponseFallsBack ==
    (pc \in { "done", "crashed" } /\ ~ExpectedShape(response)) =>
        /\ pc = "done"
        /\ ~Shown("exception")
        /\ CardTexts = FallbackCards

\* C4: when the model call raises or its text cannot be parsed, the result
\* is the fallback payload: the retrieved conditions, or "Unknown" when
\* there are none, and the two literal texts; that is what is displayed.
C4_FallbackPayload ==
    (pc \in { "render", "done", "crashed" } /\ ~Parseable(response)) =>
        /\ DOMAIN result = { "possible_conditions", "next_steps", "disclaimer" }
        /\ result["possible_conditions"].v =
              (IF retrieved_conditions = <<>> THEN << Unknown >> ELSE retrieved_conditions)
        /\ result["possible_conditions"].v # <<>>
        /\ result["next_steps"].v = << "Consult a healthcare professional." >>
        /\ result["disclaimer"].v = << "This is not medical advice" >>
        /\ pc # "render" => (pc = "done" /\ CardTexts = FallbackCards)

\* C4's case: the model returned a text without a JSON object while Flu had
\* been retrieved, and Flu is displayed.
C4_Witness ==
    /\ pc = "done"
    /\ ~response.raises
    /\ ~Parseable(response)
    /\ retrieved_conditions = << Flu >>
    /\ CardTexts[1] = Flu

\* C7: an analyze action with nothing selected shows a warning and does
\* nothing else: no retrieval, no model call, no result field.
C7_NoSelectionWarns ==
    (check /\ selected_symptoms = <<>>) =>
        /\ nRetrieve = 0
        /\ nInvoke = 0
        /\ ~Shown("subheader")
        /\ ~Shown("card")
        /\ pc \in { "key", "load", "columns", "normalize", "options", "button", "stopped" }
        /\ Shown("button") => (pc = "stopped" /\ Shown("warning"))

\* C7's case: the button was pressed with an empty multiselect.
C7_Witness ==
    /\ check
    /\ selected_symptoms = <<>>
    /\ pc = "stopped"
    /\ Shown("warning")

\* The three startup checks, on the environment.
ChecksPass ==
    /\ apiKey
    /\ file.exists
    /\ \E i \in 1..Len(file.columns) : file.columns[i] = c_condition
    /\ \E i \in 1..Len(file.columns) :
         /\ Len(file.columns[i]) >= Len(symptom_prefix)
         /\ str_lower(SubSeq(file.columns[i], 1, Len(symptom_prefix))) = symptom_prefix

\* C8: without the credential, the file, the condition column or a symptom
\* column the run halts with a message before the selector, the retrieval
\* and the model call; these are reached only when all checks passed.
C8_StartupGated ==
    ~ChecksPass =>
        /\ pc \in { "key", "load", "columns", "stopped" }
        /\ ~Shown("multiselect")
        /\ ~Shown("button")
        /\ nRetrieve = 0
        /\ nInvoke = 0
        /\ pc = "stopped" => Shown("error")

\* C8's case: key and file are there, no column starts with "symptom".
C8_Witness ==
    /\ apiKey
    /\ file.exists
    /\ ~ChecksPass
    /\ pc = "stopped"
    /\ Shown("error")

Loaded ==
    \/ pc \in { "options", "button", "retrieve", "invoke", "render", "idle",
                "done", "crashed" }
    \/ pc = "stopped" /\ Shown("multiselect")

\* C10: once normalized, the dataset is not changed by building the options,
\* by retrieve_conditions or by the analysis, and a retrieval with the
\* selection of the run before returns what it returned there.
C10_DatasetReadOnly ==
    /\ Loaded => df = dfFirst[1]
    /\ (Retrieved /\ prev # <<>> /\ prev[1].sel = selected_symptoms) =>
          Range(retrieved_conditions) = prev[1].res

\* C10's case: a second analysis of the same selection, with a match.
C10_Witness ==
    /\ pc = "done"
    /\ nRetrieve = 1
    /\ prev # <<>>
    /\ prev[1].sel = selected_symptoms
    /\ retrieved_conditions # <<>>
    /\ df = dfFirst[1]

====
